---- MODULE Spec2Model ----
(***************************************************************************)
(* A model of bigtools' bigWig merge kernel (src/src/bigwigmerge.rs) and   *)
(* of its write-before-destination buffer (src/src/tempfilebuffer.rs).     *)
(*                                                                         *)
(* Intervals (ValueSection) are records [start, end, value].  start and    *)
(* end are u32 in the source; the code only compares and copies them, so   *)
(* no width is needed.  value is f32 in the source; the code only adds     *)
(* values and compares them with 0.0, so values are modelled as small      *)
(* integers (negative ones included, so that a sum of two nonzero values   *)
(* can be zero, as it can with floats).                                    *)
(*                                                                         *)
(* Rust's Option<T> is a sequence of length 0 (None) or 1 (Some(x)).       *)
(***************************************************************************)
EXTENDS Integers, Sequences, FiniteSets, TLC

VARIABLES
    \* harness of the pure function merge_into: its arguments and its result
    mi_one, mi_two, mi_res,
    \* ValueSectionIter: the source iterators, the queue, the pending buffer
    sections, queue, buffer,
    \* locals of ValueSectionIter::next: out, earliest_start, the position of
    \* the 'vals loop (index of the next source to pull), the control point
    out, earliest_start, sec, pc,
    \* observation of the caller: the streams handed to merge_sections_many,
    \* the last value next() returned, every interval it returned so far,
    \* whether it has returned None, whether a call panicked
    inputs, ret, yielded, ended, panicked,
    \* TempFileBuffer: how it was constructed, the BufferState behind the
    \* state mutex (a file is the sequence of bytes it holds), the closed
    \* flag, the holders of the two mutexes, whether the owner is parked on
    \* the condition variable
    ctor, state, closed, state_lock, closed_lock, cv_waiting,
    \* the writer thread: control point, the buffer of the write in progress,
    \* the number of write calls made, every byte its writes reported written
    writer_pc, w_buf, nwrites, written,
    \* the owner thread: control point, the call in progress, the number of
    \* switch calls made, the number of bytes switch copied, the file a call
    \* returned, the bytes expect_closed_write copied to its sink
    owner_pc, owner_op, nswitch, copied, returned, sink,
    \* get_merged_values: the input files, what the call returned, the
    \* per-chromosome pipelines chained into all_values and not yet entered,
    \* the chromosome of the pipeline being drained, and the tagged intervals
    \* the pipelines already left behind have yielded
    bigwigs, gmv, all_values, current_chrom, tagged

miVars == <<mi_one, mi_two, mi_res>>
mergeVars == <<sections, queue, buffer, out, earliest_start, sec, pc, inputs, ret, yielded, ended, panicked>>
bufVars == <<ctor, state, closed, state_lock, closed_lock, cv_waiting,
             writer_pc, w_buf, nwrites, written, owner_pc, owner_op, nswitch, copied, returned, sink>>
chromVars == <<bigwigs, gmv, all_values, current_chrom, tagged>>
vars == <<miVars, mergeVars, bufVars, chromVars>>
nonMiVars == <<mergeVars, bufVars, chromVars>>
nonMergeVars == <<miVars, bufVars, chromVars>>
nonBufVars == <<miVars, mergeVars, chromVars>>

\* ------------------------------------------------------------------ bounds
\* Largest genomic position of an argument of merge_into.
MaxPos == 4
\* Largest absolute value carried by an argument of merge_into.
MaxVal == 1
\* Number of source streams handed to merge_sections_many.
NumSources == 3
\* Largest number of intervals all source streams produce together.
MaxTotal == 3
\* Largest genomic position of a source interval.
MaxSrcPos == 3
\* Largest number of write calls the writer thread makes.
MaxWrites == 3
\* Largest length of the buffer passed to one write call.
MaxBuf == 2
\* Largest number of switch calls the owner thread makes.
MaxSwitches == 2
\* Number of bigWig files handed to get_merged_values.
NumBigwigs == 2
\* Largest chromosome length a file declares.
MaxChromLen == 2
\* Largest source value (in halves) of the two-source scenario.
MaxHalves == 4

Positions == 0..MaxPos
Values == (0 - MaxVal)..MaxVal

\* struct ValueSection { start, end, value }
ValueSection(s, e, v) == [start |-> s, end |-> e, value |-> v]

\* All well-formed input intervals (start < end).
Intervals == {iv \in [start : Positions, end : Positions, value : Values] : iv.start < iv.end}

None == <<>>
Some(x) == <<x>>

\* The value mem::replace leaves in the queue slot while merge_into runs,
\* also used as the tuple's filler when merge_into panics.
Placeholder == ValueSection(0, 0, 0)

\* The 4-tuple merge_into returns, or the panic it raises instead.
Tuple(p, s, t, o) == [panic |-> FALSE, one |-> p, two |-> s, three |-> t, overhang |-> o]
Panic == [panic |-> TRUE, one |-> Placeholder, two |-> None, three |-> None, overhang |-> None]

\* merge_into_eq without its test of two.value against 0.0.
merge_into_eq_nozero(one, two) ==
    IF one.end = two.end
    THEN Tuple(ValueSection(one.start, one.end, one.value + two.value), None, None, None)
    ELSE IF one.end < two.end
    THEN Tuple(ValueSection(one.start, one.end, one.value + two.value), None, None,
               Some(ValueSection(one.end, two.end, two.value)))
    ELSE Tuple(ValueSection(two.start, two.end, one.value + two.value),
               Some(ValueSection(two.end, one.end, one.value)), None, None)

\* fn merge_into: start == start
merge_into_eq(one, two) ==
    IF one.end = two.end
    THEN Tuple(ValueSection(one.start, one.end, one.value + two.value), None, None, None)
    ELSE IF one.end < two.end
    THEN Tuple(ValueSection(one.start, one.end, one.value + two.value), None, None,
               Some(ValueSection(one.end, two.end, two.value)))
    ELSE IF two.value = 0
    THEN Tuple(one, None, None, None)
    ELSE Tuple(ValueSection(two.start, two.end, one.value + two.value),
               Some(ValueSection(two.end, one.end, one.value)), None, None)

\* merge_into_lt whose overhangs are the whole of two, not cut at one.end.
merge_into_lt_uncut(one, two) ==
    IF one.end = two.end
    THEN IF two.value = 0
         THEN Tuple(ValueSection(one.start, one.end, one.value), None, None, None)
         ELSE Tuple(ValueSection(one.start, two.start, one.value),
                    Some(ValueSection(two.start, two.end, one.value + two.value)), None, None)
    ELSE IF one.end < two.end
    THEN IF one.value = 0 /\ two.value = 0
         THEN Tuple(one, None, None, Some(ValueSection(two.start, two.end, 0)))
         ELSE IF one.value = 0
         THEN Tuple(ValueSection(one.start, two.start, 0),
                    Some(ValueSection(two.start, one.end, two.value)), None,
                    Some(ValueSection(two.start, two.end, two.value)))
         ELSE IF two.value = 0
         THEN Tuple(one, None, None, Some(ValueSection(two.start, two.end, 0)))
         ELSE Tuple(ValueSection(one.start, two.start, one.value),
                    Some(ValueSection(two.start, one.end, one.value + two.value)), None,
                    Some(ValueSection(two.start, two.end, two.value)))
    ELSE IF two.value = 0
    THEN Tuple(one, None, None, None)
    ELSE Tuple(ValueSection(one.start, two.start, one.value),
               Some(ValueSection(two.start, two.end, one.value + two.value)),
               Some(ValueSection(two.end, one.end, one.value)), None)

\* fn merge_into: one.start < two.start
merge_into_lt(one, two) ==
    IF one.end = two.end
    THEN IF two.value = 0
         THEN Tuple(ValueSection(one.start, one.end, one.value), None, None, None)
         ELSE Tuple(ValueSection(one.start, two.start, one.value),
                    Some(ValueSection(two.start, two.end, one.value + two.value)), None, None)
    ELSE IF one.end < two.end
    THEN IF one.value = 0 /\ two.value = 0
         THEN Tuple(one, None, None, Some(ValueSection(one.end, two.end, 0)))
         ELSE IF one.value = 0
         THEN Tuple(ValueSection(one.start, two.start, 0),
                    Some(ValueSection(two.start, one.end, two.value)), None,
                    Some(ValueSection(one.end, two.end, two.value)))
         ELSE IF two.value = 0
         THEN Tuple(one, None, None, Some(ValueSection(one.end, two.end, 0)))
         ELSE Tuple(ValueSection(one.start, two.start, one.value),
                    Some(ValueSection(two.start, one.end, one.value + two.value)), None,
                    Some(ValueSection(one.end, two.end, two.value)))
    ELSE IF two.value = 0
    THEN Tuple(one, None, None, None)
    ELSE Tuple(ValueSection(one.start, two.start, one.value),
               Some(ValueSection(two.start, two.end, one.value + two.value)),
               Some(ValueSection(two.end, one.end, one.value)), None)

\* merge_into_gt whose overhang carries the sum instead of two.value.
merge_into_gt_sum(one, two) ==
    IF one.end = two.end
    THEN IF one.value = 0
         THEN Tuple(two, None, None, None)
         ELSE Tuple(ValueSection(two.start, one.start, two.value),
                    Some(ValueSection(one.start, one.end, one.value + two.value)), None, None)
    ELSE IF one.end < two.end
    THEN IF one.value = 0
         THEN Tuple(two, None, None, None)
         ELSE Tuple(ValueSection(two.start, one.start, two.value),
                    Some(ValueSection(one.start, one.end, one.value + two.value)), None,
                    Some(ValueSection(one.end, two.end, one.value + two.value)))
    ELSE IF one.value = 0 /\ two.value = 0
    THEN Tuple(ValueSection(two.start, one.end, 0), None, None, None)
    ELSE IF one.value = 0
    THEN Tuple(two, Some(ValueSection(two.end, one.end, one.value)), None, None)
    ELSE IF two.value = 0
    THEN Tuple(ValueSection(two.start, one.start, 0),
               Some(ValueSection(one.start, one.end, one.value)), None, None)
    ELSE Tuple(ValueSection(two.start, one.start, two.value),
               Some(ValueSection(one.start, two.end, one.value + two.value)),
               Some(ValueSection(two.end, one.end, one.value)), None)

\* fn merge_into: one.start > two.start
merge_into_gt(one, two) ==
    IF one.end = two.end
    THEN IF one.value = 0
         THEN Tuple(two, None, None, None)
         ELSE Tuple(ValueSection(two.start, one.start, two.value),
                    Some(ValueSection(one.start, one.end, one.value + two.value)), None, None)
    ELSE IF one.end < two.end
    THEN IF one.value = 0
         THEN Tuple(two, None, None, None)
         ELSE Tuple(ValueSection(two.start, one.start, two.value),
                    Some(ValueSection(one.start, one.end, one.value + two.value)), None,
                    Some(ValueSection(one.end, two.end, two.value)))
    ELSE IF one.value = 0 /\ two.value = 0
    THEN Tuple(ValueSection(two.start, one.end, 0), None, None, None)
    ELSE IF one.value = 0
    THEN Tuple(two, Some(ValueSection(two.end, one.end, one.value)), None, None)
    ELSE IF two.value = 0
    THEN Tuple(ValueSection(two.start, one.start, 0),
               Some(ValueSection(one.start, one.end, one.value)), None, None)
    ELSE Tuple(ValueSection(two.start, one.start, two.value),
               Some(ValueSection(one.start, two.end, one.value + two.value)),
               Some(ValueSection(two.end, one.end, one.value)), None)

\* merge_into whose overlap test is strict.
merge_into_strict(one, two) ==
    IF one.end < two.start
    THEN Panic
    ELSE IF one.start = two.start
    THEN merge_into_eq(one, two)
    ELSE IF one.start < two.start
    THEN merge_into_lt(one, two)
    ELSE merge_into_gt(one, two)

\* fn merge_into(one, two)
merge_into(one, two) ==
    IF one.end <= two.start
    THEN Panic
    ELSE IF one.start = two.start
    THEN merge_into_eq(one, two)
    ELSE IF one.start < two.start
    THEN merge_into_lt(one, two)
    ELSE merge_into_gt(one, two)

\* ------------------------------------------------- merge_into, as called
\* The arguments a caller may pass: any two well-formed intervals.
MergeIntoUnused == mi_one = Placeholder /\ mi_two = Placeholder /\ mi_res = None

\* A call merge_into(mi_one, mi_two): mi_res holds what came back.
CallMergeInto ==
    /\ mi_res = None
    /\ mi_res' = Some(merge_into(mi_one, mi_two))
    /\ UNCHANGED <<mi_one, mi_two, nonMiVars>>

\* ------------------------------------------------------ ValueSectionIter
\* Source intervals and source streams: sorted by start, internally disjoint.
\* The code only tests a value against zero and adds it, so a source value is
\* 0 or 1.
SrcIntervals == {iv \in [start : 0..MaxSrcPos, end : 0..MaxSrcPos, value : {0, 1}] : iv.start < iv.end}

SortedDisjoint(s) == \A i \in 1..(Len(s) - 1) : s[i].end <= s[i + 1].start

\* The streams of exactly n intervals.
RECURSIVE StreamsOfLen(_)
StreamsOfLen(n) ==
    IF n = 0 THEN {<<>>}
    ELSE UNION {{Append(s, iv) : iv \in {x \in SrcIntervals : s = <<>> \/ s[Len(s)].end <= x.start}}
                : s \in StreamsOfLen(n - 1)}

\* The streams of at most t intervals.
StreamsUpTo(t) == UNION {StreamsOfLen(k) : k \in 0..t}

\* The positions at which an interval of the list starts or ends.
Endpoints(ss) ==
    UNION {UNION {{ss[i][j].start, ss[i][j].end} : j \in 1..Len(ss[i])} : i \in 1..Len(ss)}

\* The code only compares positions, so every input has the same run as the
\* one whose endpoints are renumbered 0, 1, 2, ...: only such inputs are
\* drawn.
Compact(ss) == Endpoints(ss) \in {{}} \cup {0..k : k \in 1..MaxSrcPos}

MinOf(S) == CHOOSE x \in S : \A y \in S : x <= y

\* insert_once that drops the overhang merge_into returns.
insert_once_nooverhang(q, nv, pulled) ==
    IF q = <<>> \/ q[Len(q)].end <= nv.start
    THEN [queue |-> Append(q, nv), overhang |-> None, panic |-> FALSE]
    ELSE LET hits == {i \in 1..Len(q) : nv.end <= q[i].start \/ ~(q[i].end <= nv.start)}
         IN  IF hits = {}
             THEN [queue |-> q, overhang |-> None, panic |-> pulled]
             ELSE LET idx == MinOf(hits)
                      m == merge_into(q[idx], nv)
                  IN  IF nv.end <= q[idx].start
                      THEN [queue |-> SubSeq(q, 1, idx - 1) \o <<nv>> \o SubSeq(q, idx, Len(q)),
                            overhang |-> None, panic |-> FALSE]
                      ELSE IF m.panic
                      THEN [queue |-> [q EXCEPT ![idx] = Placeholder], overhang |-> None, panic |-> TRUE]
                      ELSE [queue |-> SubSeq(q, 1, idx - 1) \o <<m.one>> \o m.two \o m.three
                                      \o SubSeq(q, idx + 1, Len(q)),
                            overhang |-> None, panic |-> FALSE]

\* One pass of the insertion scan of ValueSectionIter::next for the incoming
\* interval nv: the fast path (push_back), or the for loop over the queue up
\* to its first insert or merge_into.  pulled tells the scan of a pulled
\* interval (which ends in unreachable!()) from the scan of an overhang
\* (which falls out of its for loop and drops the overhang).
insert_once(q, nv, pulled) ==
    IF q = <<>> \/ q[Len(q)].end <= nv.start
    THEN [queue |-> Append(q, nv), overhang |-> None, panic |-> FALSE]
    ELSE LET hits == {i \in 1..Len(q) : nv.end <= q[i].start \/ ~(q[i].end <= nv.start)}
         IN  IF hits = {}
             THEN [queue |-> q, overhang |-> None, panic |-> pulled]
             ELSE LET idx == MinOf(hits)
                      m == merge_into(q[idx], nv)
                  IN  IF nv.end <= q[idx].start
                      THEN [queue |-> SubSeq(q, 1, idx - 1) \o <<nv>> \o SubSeq(q, idx, Len(q)),
                            overhang |-> None, panic |-> FALSE]
                      ELSE IF m.panic
                      THEN [queue |-> [q EXCEPT ![idx] = Placeholder], overhang |-> None, panic |-> TRUE]
                      ELSE [queue |-> SubSeq(q, 1, idx - 1) \o <<m.one>> \o m.two \o m.three
                                      \o SubSeq(q, idx + 1, Len(q)),
                            overhang |-> m.overhang, panic |-> FALSE]

\* The insertion of a pulled interval with its 'overhang loop: the scan is
\* repeated with each overhang until merge_into returns none.
RECURSIVE insert(_, _, _)
insert(q, nv, pulled) ==
    LET r == insert_once(q, nv, pulled)
    IN  IF r.overhang # None /\ ~r.panic
        THEN insert(r.queue, r.overhang[1], FALSE)
        ELSE r

\* merge_call whose scan does not skip the queue entries that end at or
\* before the incoming interval's start.
merge_call_noskip(q, nv) ==
    IF q = <<>> \/ q[Len(q)].end <= nv.start THEN None
    ELSE IF nv.end <= q[1].start THEN None
    ELSE Some(<<q[1], nv>>)

\* The arguments of the merge_into call one pass of the insertion scan
\* makes for the incoming interval nv, if it makes one: the first queue entry
\* that neither starts at or after nv's end nor ends at or before nv's start.
merge_call(q, nv) ==
    IF q = <<>> \/ q[Len(q)].end <= nv.start THEN None
    ELSE LET hits == {i \in 1..Len(q) : nv.end <= q[i].start \/ ~(q[i].end <= nv.start)}
         IN  IF hits = {} THEN None
             ELSE IF nv.end <= q[MinOf(hits)].start THEN None
             ELSE Some(<<q[MinOf(hits)], nv>>)

\* The arguments of all merge_into calls of the insertion of nv, in order:
\* that of the scan of nv, then those of the scans of the overhangs.
RECURSIVE merge_calls(_, _, _)
merge_calls(q, nv, pulled) ==
    LET r == insert_once(q, nv, pulled)
    IN  merge_call(q, nv) \o (IF r.overhang # None /\ ~r.panic
                              THEN merge_calls(r.queue, r.overhang[1], FALSE)
                              ELSE <<>>)

\* An insertion scan runs through the whole queue without inserting or
\* merging: for a pulled interval this is the unreachable!(), for an overhang
\* the overhang is dropped.
RECURSIVE falls_through(_, _)
falls_through(q, nv) ==
    LET r == insert_once(q, nv, FALSE)
        fell == ~(q = <<>> \/ q[Len(q)].end <= nv.start)
                /\ {i \in 1..Len(q) : nv.end <= q[i].start \/ ~(q[i].end <= nv.start)} = {}
    IN  fell \/ (r.overhang # None /\ ~r.panic /\ falls_through(r.queue, r.overhang[1]))

\* The overhangs of the insertion of nv, each with the incoming interval of
\* the merge_into call that returned it, for the first n calls at most.
RECURSIVE overhangs(_, _, _)
overhangs(q, nv, n) ==
    IF n = 0 THEN <<>>
    ELSE LET r == insert_once(q, nv, FALSE)
         IN  IF r.overhang = None \/ r.panic THEN <<>>
             ELSE <<[incoming |-> nv, overhang |-> r.overhang[1]]>> \o overhangs(r.queue, r.overhang[1], n - 1)

\* SafePrefix that takes the whole queue whatever start is.
SafePrefix_all(q, start) == Len(q)

\* The number of leading queue entries the drain loop pops: those before the
\* first entry with end > start.
SafePrefix(q, start) ==
    LET stops == {i \in 1..Len(q) : q[i].end > start}
    IN  IF stops = {} THEN Len(q) ELSE MinOf(stops) - 1

\* self.buffer = Some(out.into_iter()); self.buffer.next()
ReturnFrom(o) ==
    /\ buffer' = Some(IF o = <<>> THEN <<>> ELSE Tail(o))
    /\ ret' = IF o = <<>> THEN None ELSE Some(Head(o))
    /\ yielded' = IF o = <<>> THEN yielded ELSE Append(yielded, Head(o))
    /\ ended' = (ended \/ o = <<>>)
    /\ out' = <<>>
    /\ earliest_start' = None
    /\ sec' = 0
    /\ pc' = "idle"

\* next(): the pending buffer still holds an interval; return it.
NextBuffered ==
    /\ pc = "idle"
    /\ buffer # None
    /\ buffer[1] # <<>>
    /\ buffer' = Some(Tail(buffer[1]))
    /\ ret' = Some(Head(buffer[1]))
    /\ yielded' = Append(yielded, Head(buffer[1]))
    /\ UNCHANGED <<sections, queue, out, earliest_start, sec, pc, inputs, ended, panicked, nonMergeVars>>

\* next(): no pending buffer, or an exhausted one; enter the first round.
NextStart ==
    /\ pc = "idle"
    /\ IF buffer = None THEN TRUE ELSE buffer[1] = <<>>
    /\ buffer' = None
    /\ out' = <<>>
    /\ earliest_start' = None
    /\ sec' = 1
    /\ pc' = "vals"
    /\ UNCHANGED <<sections, queue, inputs, ret, yielded, ended, panicked, nonMergeVars>>

\* One iteration of the 'vals loop: pull from source sec and insert.
Pull ==
    /\ pc = "vals"
    /\ sec <= Len(sections)
    /\ IF sections[sec] = <<>>
       THEN UNCHANGED <<sections, queue, earliest_start, panicked, pc>>
       ELSE LET next_val == Head(sections[sec])
                r == insert(queue, next_val, TRUE)
            IN  /\ sections' = [sections EXCEPT ![sec] = Tail(@)]
                /\ earliest_start' = IF earliest_start = None
                                     THEN Some(next_val.start)
                                     ELSE Some(IF earliest_start[1] <= next_val.start
                                               THEN earliest_start[1] ELSE next_val.start)
                /\ queue' = r.queue
                /\ panicked' = r.panic
                /\ pc' = IF r.panic THEN "panic" ELSE pc
    /\ sec' = sec + 1
    /\ UNCHANGED <<buffer, out, inputs, ret, yielded, ended, nonMergeVars>>

\* The end of a round in which no source produced, without the drain of the
\* queue.
RoundDrainAll_nodrain ==
    /\ pc = "vals"
    /\ sec > Len(sections)
    /\ earliest_start = None
    /\ queue' = queue
    /\ ReturnFrom(out)
    /\ UNCHANGED <<sections, inputs, panicked, nonMergeVars>>

\* End of a round in which no source produced: drain the whole queue, return.
RoundDrainAll ==
    /\ pc = "vals"
    /\ sec > Len(sections)
    /\ earliest_start = None
    /\ queue' = <<>>
    /\ ReturnFrom(out \o queue)
    /\ UNCHANGED <<sections, inputs, panicked, nonMergeVars>>

\* End of a round in which a source produced and the safe prefix (or out) is
\* not empty: drain the prefix, return.
RoundDrainSafe ==
    /\ pc = "vals"
    /\ sec > Len(sections)
    /\ earliest_start # None
    /\ LET k == SafePrefix(queue, earliest_start[1])
           o == out \o SubSeq(queue, 1, k)
       IN  /\ o # <<>>
           /\ queue' = SubSeq(queue, k + 1, Len(queue))
           /\ ReturnFrom(o)
    /\ UNCHANGED <<sections, inputs, panicked, nonMergeVars>>

\* End of a round in which a source produced but nothing is safe to emit:
\* start another round.
RoundAgain ==
    /\ pc = "vals"
    /\ sec > Len(sections)
    /\ earliest_start # None
    /\ out \o SubSeq(queue, 1, SafePrefix(queue, earliest_start[1])) = <<>>
    /\ earliest_start' = None
    /\ sec' = 1
    /\ UNCHANGED <<sections, queue, buffer, out, pc, inputs, ret, yielded, ended, panicked, nonMergeVars>>

\* merge_sections_many(sections): queue empty, no buffer.
MergeUnused ==
    /\ inputs = <<>> /\ sections = <<>> /\ queue = <<>> /\ buffer = None
    /\ out = <<>> /\ earliest_start = None /\ sec = 0 /\ pc = "off"
    /\ ret = None /\ yielded = <<>> /\ ended = FALSE /\ panicked = FALSE

merge_sections_many(ss) ==
    /\ inputs = ss /\ sections = ss /\ queue = <<>> /\ buffer = None
    /\ out = <<>> /\ earliest_start = None /\ sec = 0 /\ pc = "idle"
    /\ ret = None /\ yielded = <<>> /\ ended = FALSE /\ panicked = FALSE

\* One round of the 'vals loop as a function: sources i.. of secs are pulled
\* in turn and their intervals inserted into q; es is earliest_start.
RECURSIVE round(_, _, _, _)
round(secs, q, i, es) ==
    IF i > Len(secs) THEN [sections |-> secs, queue |-> q, earliest_start |-> es, panic |-> FALSE]
    ELSE IF secs[i] = <<>> THEN round(secs, q, i + 1, es)
    ELSE LET next_val == Head(secs[i])
             r == insert(q, next_val, TRUE)
             e == IF es = None THEN next_val.start
                  ELSE IF es[1] <= next_val.start THEN es[1] ELSE next_val.start
         IN  IF r.panic
             THEN [sections |-> secs, queue |-> r.queue, earliest_start |-> es, panic |-> TRUE]
             ELSE round([secs EXCEPT ![i] = Tail(@)], r.queue, i + 1, Some(e))

\* merge_sections_many(ss).collect(): every interval next() returns up to its
\* first None, round after round, from the sources secs and the queue q.
RECURSIVE collect(_, _)
collect(secs, q) ==
    LET r == round(secs, q, 1, None)
    IN  IF r.panic THEN [out |-> <<>>, panic |-> TRUE]
        ELSE IF r.earliest_start = None THEN [out |-> r.queue, panic |-> FALSE]
        ELSE LET k == SafePrefix(r.queue, r.earliest_start[1])
                 rest == collect(r.sections, SubSeq(r.queue, k + 1, Len(r.queue)))
             IN  [out |-> SubSeq(r.queue, 1, k) \o rest.out, panic |-> rest.panic]

\* The caller's choice of sources: n more streams after those of ss, holding
\* at most t intervals together.
RECURSIVE CallMerge(_, _, _)
CallMerge(ss, n, t) ==
    IF n = 0
    THEN Compact(ss) /\ merge_sections_many(ss)
    ELSE \E s \in StreamsUpTo(t) : CallMerge(Append(ss, s), n - 1, t - Len(s))

\* --------------------------------------------------------- TempFileBuffer
\* All file operations are taken to succeed (no io::Error); a file is the
\* sequence of bytes it holds, its position being at its end whenever a
\* write reaches it.
\* enum BufferState { Temp(Option<File>), Real(Option<File>) }
Temp(f) == [kind |-> "Temp", file |-> f]
Real(f) == [kind |-> "Real", file |-> f]

\* TempFileBuffer::new / new_from_real: the shared state both handles hold.
TempFileBuffer_new(c) ==
    /\ ctor = c
    /\ state = IF c = "new" THEN Temp(Some(<<>>)) ELSE Real(Some(<<>>))
    /\ closed = FALSE
    /\ state_lock = "free" /\ closed_lock = "free" /\ cv_waiting = FALSE
    /\ writer_pc = "run" /\ w_buf = <<>> /\ nwrites = 0 /\ written = <<>>
    /\ owner_pc = "run" /\ owner_op = "none" /\ nswitch = 0
    /\ copied = None /\ returned = None /\ sink = <<>>

BufUnused ==
    /\ ctor = "none"
    /\ state = Temp(None)
    /\ closed = FALSE
    /\ state_lock = "free" /\ closed_lock = "free" /\ cv_waiting = FALSE
    /\ writer_pc = "off" /\ w_buf = <<>> /\ nwrites = 0 /\ written = <<>>
    /\ owner_pc = "off" /\ owner_op = "none" /\ nswitch = 0
    /\ copied = None /\ returned = None /\ sink = <<>>

\* The buffers a write call may be handed: 1..MaxBuf bytes, numbered on from
\* the bytes written so far, so that every byte written is distinct.
WriteBufs == {[i \in 1..n |-> Len(written) + i] : n \in 1..MaxBuf}

\* ---- the writer thread
\* write(): self.state.lock()
WriterCallWrite ==
    /\ writer_pc = "run"
    /\ nwrites < MaxWrites
    /\ state_lock = "free"
    /\ state_lock' = "writer"
    /\ writer_pc' = "write"
    /\ w_buf' \in WriteBufs
    /\ nwrites' = nwrites + 1
    /\ UNCHANGED <<ctor, state, closed, closed_lock, cv_waiting, written,
                   owner_pc, owner_op, nswitch, copied, returned, sink, nonBufVars>>

\* write(): the match under the lock; file.write(buf) accepts a nonempty
\* prefix of buf and reports its length.  A missing file panics, which
\* unwinds the writer thread.
WriterWrite ==
    /\ writer_pc = "write"
    /\ IF state.file = None
       THEN /\ writer_pc' = "unwind"
            /\ UNCHANGED <<state, written>>
       ELSE \E n \in 1..Len(w_buf) :
                /\ state' = [state EXCEPT !.file = Some(@[1] \o SubSeq(w_buf, 1, n))]
                /\ written' = written \o SubSeq(w_buf, 1, n)
                /\ writer_pc' = "run"
    /\ state_lock' = "free"
    /\ w_buf' = <<>>
    /\ UNCHANGED <<ctor, closed, closed_lock, cv_waiting, nwrites,
                   owner_pc, owner_op, nswitch, copied, returned, sink, nonBufVars>>

\* flush(): self.state.lock()
WriterCallFlush ==
    /\ writer_pc = "run"
    /\ state_lock = "free"
    /\ state_lock' = "writer"
    /\ writer_pc' = "flush"
    /\ UNCHANGED <<ctor, state, closed, closed_lock, cv_waiting, w_buf, nwrites, written,
                   owner_pc, owner_op, nswitch, copied, returned, sink, nonBufVars>>

\* flush(): the match under the lock.
WriterFlush ==
    /\ writer_pc = "flush"
    /\ writer_pc' = IF state.file = None THEN "unwind" ELSE "run"
    /\ state_lock' = "free"
    /\ UNCHANGED <<ctor, state, closed, closed_lock, cv_waiting, w_buf, nwrites, written,
                   owner_pc, owner_op, nswitch, copied, returned, sink, nonBufVars>>

\* drop(): lock.lock().  The writer is dropped when its thread is done with
\* it, or when a panic unwinds the thread.
WriterCallDrop ==
    /\ writer_pc \in {"run", "unwind"}
    /\ closed_lock = "free"
    /\ closed_lock' = "writer"
    /\ writer_pc' = "drop"
    /\ UNCHANGED <<ctor, state, closed, state_lock, cv_waiting, w_buf, nwrites, written,
                   owner_pc, owner_op, nswitch, copied, returned, sink, nonBufVars>>

\* drop() without its cvar.notify_one().
WriterDrop_nonotify ==
    /\ writer_pc = "drop"
    /\ closed' = TRUE
    /\ closed_lock' = "free"
    /\ writer_pc' = "dropped"
    /\ UNCHANGED <<ctor, state, state_lock, cv_waiting, w_buf, nwrites, written,
                   owner_pc, owner_op, nswitch, copied, returned, sink, nonBufVars>>

\* drop(): *closed = true; cvar.notify_one(); drop(closed)
WriterDrop ==
    /\ writer_pc = "drop"
    /\ closed' = TRUE
    /\ cv_waiting' = FALSE
    /\ closed_lock' = "free"
    /\ writer_pc' = "dropped"
    /\ UNCHANGED <<ctor, state, state_lock, w_buf, nwrites, written,
                   owner_pc, owner_op, nswitch, copied, returned, sink, nonBufVars>>

\* ---- the owner thread
\* switch(): self.state.lock()
OwnerCallSwitch ==
    /\ owner_pc = "run"
    /\ nswitch < MaxSwitches
    /\ state_lock = "free"
    /\ state_lock' = "owner"
    /\ owner_pc' = "switch"
    /\ nswitch' = nswitch + 1
    /\ UNCHANGED <<ctor, state, closed, closed_lock, cv_waiting, writer_pc, w_buf, nwrites, written,
                   owner_op, copied, returned, sink, nonBufVars>>

\* switch() that installs new_file without copying the spill file into it.
switch_nocopy(st) ==
    IF st.kind = "Temp" /\ st.file # None
    THEN [state |-> Real(Some(<<>>)), copied |-> Some(0), panic |-> FALSE]
    ELSE [state |-> st, copied |-> None, panic |-> TRUE]

\* switch(): the match under the lock, new_file being a fresh empty file:
\* rewind the spill file, copy it into new_file, install Real(new_file).
switch(st) ==
    IF st.kind = "Temp" /\ st.file # None
    THEN [state |-> Real(Some(<<>> \o st.file[1])), copied |-> Some(Len(st.file[1])), panic |-> FALSE]
    ELSE [state |-> st, copied |-> None, panic |-> TRUE]

\* switch() that installs new_file whatever the state is.
OwnerSwitch_replace ==
    /\ owner_pc = "switch"
    /\ state' = Real(Some(IF state.kind = "Temp" /\ state.file # None THEN state.file[1] ELSE <<>>))
    /\ copied' = IF state.kind = "Temp" /\ state.file # None THEN Some(Len(state.file[1])) ELSE copied
    /\ owner_pc' = "run"
    /\ state_lock' = "free"
    /\ UNCHANGED <<ctor, closed, closed_lock, cv_waiting, writer_pc, w_buf, nwrites, written,
                   owner_op, nswitch, returned, sink, nonBufVars>>

\* switch(): the match under the lock; the guard is dropped on return and
\* on panic.
OwnerSwitch ==
    /\ owner_pc = "switch"
    /\ LET r == switch(state)
       IN  /\ state' = r.state
           /\ copied' = IF r.panic THEN copied ELSE r.copied
           /\ owner_pc' = IF r.panic THEN "panicked" ELSE "run"
    /\ state_lock' = "free"
    /\ UNCHANGED <<ctor, closed, closed_lock, cv_waiting, writer_pc, w_buf, nwrites, written,
                   owner_op, nswitch, returned, sink, nonBufVars>>

AwaitOps == {"await_file", "await_raw", "expect_closed_write"}

\* An await call that locks the state before it waits for closed.
OwnerCallAwait_statefirst ==
    /\ owner_pc = "run"
    /\ closed_lock = "free"
    /\ state_lock = "free"
    /\ closed_lock' = "owner"
    /\ state_lock' = "owner"
    /\ owner_op' \in AwaitOps
    /\ owner_pc' = "check"
    /\ UNCHANGED <<ctor, state, closed, cv_waiting, writer_pc, w_buf, nwrites, written,
                   nswitch, copied, returned, sink, nonBufVars>>

\* await_file / await_raw / expect_closed_write: lock.lock()
OwnerCallAwait ==
    /\ owner_pc = "run"
    /\ closed_lock = "free"
    /\ closed_lock' = "owner"
    /\ owner_op' \in AwaitOps
    /\ owner_pc' = "check"
    /\ UNCHANGED <<ctor, state, closed, state_lock, cv_waiting, writer_pc, w_buf, nwrites, written,
                   nswitch, copied, returned, sink, nonBufVars>>

\* The wait loop without its test of *closed.
OwnerCheck_nowait ==
    /\ owner_pc = "check"
    /\ owner_pc' = "state"
    /\ UNCHANGED <<ctor, state, closed, state_lock, closed_lock, cv_waiting, writer_pc, w_buf, nwrites,
                   written, owner_op, nswitch, copied, returned, sink, nonBufVars>>

\* while !*closed { cvar.wait(&mut closed) }: the test, and the wait's
\* atomic release of the mutex with parking on the condition variable.
OwnerCheck ==
    /\ owner_pc = "check"
    /\ IF closed
       THEN /\ owner_pc' = "state"
            /\ UNCHANGED <<closed_lock, cv_waiting>>
       ELSE /\ owner_pc' = "wait"
            /\ closed_lock' = "free"
            /\ cv_waiting' = TRUE
    /\ UNCHANGED <<ctor, state, closed, state_lock, writer_pc, w_buf, nwrites, written,
                   owner_op, nswitch, copied, returned, sink, nonBufVars>>

\* A wait that returns without a notification and is not followed by another
\* test of *closed (an if in place of the while).
OwnerWake_notest ==
    /\ owner_pc = "wait"
    /\ closed_lock = "free"
    /\ closed_lock' = "owner"
    /\ cv_waiting' = FALSE
    /\ owner_pc' = "state"
    /\ UNCHANGED <<ctor, state, closed, state_lock, writer_pc, w_buf, nwrites, written,
                   owner_op, nswitch, copied, returned, sink, nonBufVars>>

\* cvar.wait returns: the owner was notified (parking_lot has no spurious
\* wakeups) and has the mutex again.
OwnerWake ==
    /\ owner_pc = "wait"
    /\ ~cv_waiting
    /\ closed_lock = "free"
    /\ closed_lock' = "owner"
    /\ owner_pc' = "check"
    /\ UNCHANGED <<ctor, state, closed, state_lock, cv_waiting, writer_pc, w_buf, nwrites, written,
                   owner_op, nswitch, copied, returned, sink, nonBufVars>>

\* self.state.lock(), the closed guard still held.
OwnerLockState ==
    /\ owner_pc = "state"
    /\ state_lock = "free"
    /\ state_lock' = "owner"
    /\ owner_pc' = "match"
    /\ UNCHANGED <<ctor, state, closed, closed_lock, cv_waiting, writer_pc, w_buf, nwrites, written,
                   owner_op, nswitch, copied, returned, sink, nonBufVars>>

\* The end of an await call: both guards are dropped, on return and on panic.
AwaitEnds(ok) ==
    /\ owner_pc' = IF ok THEN "done" ELSE "panicked"
    /\ state_lock' = "free"
    /\ closed_lock' = "free"
    /\ UNCHANGED <<ctor, closed, cv_waiting, writer_pc, w_buf, nwrites, written,
                   owner_op, nswitch, copied, nonBufVars>>

\* await_file() that takes the file whatever the state's kind is.
AwaitFileMatch_anykind ==
    /\ owner_pc = "match"
    /\ owner_op = "await_file"
    /\ IF state.file # None
       THEN /\ returned' = state.file
            /\ state' = [state EXCEPT !.file = None]
            /\ AwaitEnds(TRUE)
       ELSE /\ UNCHANGED <<returned, state>>
            /\ AwaitEnds(FALSE)
    /\ UNCHANGED sink

\* await_file(): the match under both locks.
AwaitFileMatch ==
    /\ owner_pc = "match"
    /\ owner_op = "await_file"
    /\ IF state.kind = "Real" /\ state.file # None
       THEN /\ returned' = state.file
            /\ state' = Real(None)
            /\ AwaitEnds(TRUE)
       ELSE /\ UNCHANGED <<returned, state>>
            /\ AwaitEnds(FALSE)
    /\ UNCHANGED sink

\* await_raw(): the match under both locks.
AwaitRawMatch ==
    /\ owner_pc = "match"
    /\ owner_op = "await_raw"
    /\ IF state.file # None
       THEN /\ returned' = state.file
            /\ state' = [state EXCEPT !.file = None]
            /\ AwaitEnds(TRUE)
       ELSE /\ UNCHANGED <<returned, state>>
            /\ AwaitEnds(FALSE)
    /\ UNCHANGED sink

\* expect_closed_write(real) without its seek to the start of the spill
\* file: the copy starts at the file's end and finds nothing.
ExpectClosedWriteMatch_noseek ==
    /\ owner_pc = "match"
    /\ owner_op = "expect_closed_write"
    /\ AwaitEnds(state.kind = "Temp" /\ state.file # None)
    /\ UNCHANGED <<sink, returned, state>>

\* expect_closed_write(real): the match under both locks.
ExpectClosedWriteMatch ==
    /\ owner_pc = "match"
    /\ owner_op = "expect_closed_write"
    /\ IF state.kind = "Temp" /\ state.file # None
       THEN /\ sink' = sink \o state.file[1]
            /\ AwaitEnds(TRUE)
       ELSE /\ UNCHANGED sink
            /\ AwaitEnds(FALSE)
    /\ UNCHANGED <<returned, state>>

WriterNext == WriterCallWrite \/ WriterWrite \/ WriterCallFlush \/ WriterFlush \/ WriterCallDrop \/ WriterDrop

OwnerNext ==
    \/ OwnerCallSwitch \/ OwnerSwitch \/ OwnerCallAwait \/ OwnerCheck \/ OwnerWake \/ OwnerLockState
    \/ AwaitFileMatch \/ AwaitRawMatch \/ ExpectClosedWriteMatch

\* ------------------------------------------------- the two-source scenario
\* Source A = [0,5), [5,10) and source B = [3,8), with values a, b and c
\* counted in halves (1.0 is 2).
TwoSources(a, b, c) ==
    << <<ValueSection(0, 5, a), ValueSection(5, 10, b)>>, <<ValueSection(3, 8, c)>> >>

\* ------------------------------------------------------ get_merged_values
\* Chromosome names are strings; a name is modelled as the sequence of the
\* digits that follow "chr", so <<1, 0>> is "chr10" and <<2>> is "chr2", and
\* sort() orders them as strings are ordered.
ChromNames == {<<1, 0>>, <<2>>}

\* The lengths a file may declare for a chromosome.
ChromLens == (MaxChromLen - 1)..MaxChromLen

\* What a file holds for a chromosome of length len is set by the file's
\* shape: the first position, the last position, or the first position
\* followed by the rest, all with value 1.
Shapes == {"head", "tail", "pair"}
ChromData(shape, len) ==
    IF shape = "head" THEN <<ValueSection(0, 1, 1)>>
    ELSE IF shape = "tail" THEN <<ValueSection(len - 1, len, 1)>>
    ELSE IF len >= 2 THEN <<ValueSection(0, 1, 1), ValueSection(1, len, 1)>>
    ELSE <<ValueSection(0, 1, 1)>>

AnyChromData == {ChromData(sh, l) : sh \in Shapes, l \in ChromLens}

\* A file: its shape and, for every name, None or Some of the declared
\* length.
BigWigReads == [shape : Shapes, chroms : [ChromNames -> {None} \cup {Some(l) : l \in ChromLens}]]

\* String order: a < b.
RECURSIVE StrLess(_, _)
StrLess(a, b) ==
    IF b = <<>> THEN FALSE
    ELSE IF a = <<>> THEN TRUE
    ELSE IF Head(a) # Head(b) THEN Head(a) < Head(b)
    ELSE StrLess(Tail(a), Tail(b))

\* chroms.sort(): the names of S in ascending string order.
RECURSIVE sort(_)
sort(S) ==
    IF S = {} THEN <<>>
    ELSE LET least == CHOOSE x \in S : \A y \in S \ {x} : StrLess(x, y)
         IN  <<least>> \o sort(S \ {least})

\* The indices of the files that contain chrom, in input order (filter_map).
RECURSIVE containing(_, _, _)
containing(bws, chrom, from) ==
    IF from > Len(bws) THEN <<>>
    ELSE (IF bws[from].chroms[chrom] # None THEN <<from>> ELSE <<>>) \o containing(bws, chrom, from + 1)

\* let sizes = ...: the declared lengths of chrom in the files that have it.
sizes(bws, chrom) ==
    LET having == containing(bws, chrom, 1)
    IN  [k \in 1..Len(having) |-> bws[having[k]].chroms[chrom][1]]

\* sizes.iter().all(...) with a comparison that lets smaller sizes pass.
sizes_agree_le(sz) == \A k \in 1..Len(sz) : sz[k] <= sz[1]

\* sizes.iter().all(|s| *s == size), size being sizes[0].
sizes_agree(sz) == \A k \in 1..Len(sz) : sz[k] = sz[1]

\* The names of all files' chromosomes (the keys of chrom_sizes).
chrom_names(bws) == {c \in ChromNames : \E i \in 1..Len(bws) : bws[i].chroms[c] # None}

\* The iterators built for chrom: blocks holds one block list per file that
\* contains chrom, and zip pairs the k-th of them with the k-th file of bws.
iters(bws, chrom) ==
    LET blocks == containing(bws, chrom, 1)
    IN  [k \in 1..Len(blocks) |-> [blocks |-> blocks[k], reader |-> k]]

\* pipelines with the names taken in descending order.
pipelines_desc(bws) ==
    LET chroms == sort(chrom_names(bws))
        n == Len(chroms)
    IN  [k \in 1..n |-> [chrom |-> chroms[n + 1 - k], iters |-> iters(bws, chroms[n + 1 - k])]]

\* The pipelines chained into all_values, in the order of the sorted names.
pipelines(bws) ==
    LET chroms == sort(chrom_names(bws))
    IN  [k \in 1..Len(chroms) |-> [chrom |-> chroms[k], iters |-> iters(bws, chroms[k])]]

\* The streams an iterator can decode to: the file's own intervals when
\* the blocks are read through the file they index, and whatever the bytes
\* at those offsets of another file decode to otherwise.
decoded(bws, chrom, it) ==
    IF it.blocks = it.reader
    THEN {ChromData(bws[it.blocks].shape, bws[it.blocks].chroms[chrom][1])}
    ELSE AnyChromData

ChromUnused ==
    /\ bigwigs = <<>> /\ gmv = "none" /\ all_values = <<>> /\ current_chrom = None /\ tagged = <<>>

\* get_merged_values(bigwigs): the size check, then the construction of
\* every chromosome's pipeline and of the chain.
GetMergedValues ==
    /\ gmv = "none"
    /\ IF \E c \in chrom_names(bigwigs) : ~sizes_agree(sizes(bigwigs, c))
       THEN /\ gmv' = "Err"
            /\ UNCHANGED all_values
       ELSE /\ gmv' = "Ok"
            /\ all_values' = pipelines(bigwigs)
    /\ UNCHANGED <<bigwigs, current_chrom, tagged, miVars, mergeVars, bufVars>>

\* ValueWithChrom { chrom, start, end, value }
ValueWithChrom(c, v) == [chrom |-> c, start |-> v.start, end |-> v.end, value |-> v.value]

\* The chain reaches the next pipeline: its merger is polled from now on.
ChainEnter ==
    /\ gmv = "Ok"
    /\ pc = "off"
    /\ all_values # <<>>
    /\ LET p == Head(all_values)
       IN  /\ current_chrom' = Some(p.chrom)
           /\ \E ss \in [1..Len(p.iters) -> AnyChromData] :
                  /\ \A k \in 1..Len(p.iters) : ss[k] \in decoded(bigwigs, p.chrom, p.iters[k])
                  /\ inputs' = ss /\ sections' = ss
    /\ all_values' = Tail(all_values)
    /\ pc' = "idle"
    /\ UNCHANGED <<queue, buffer, out, earliest_start, sec, ret, yielded, ended, panicked,
                   bigwigs, gmv, tagged, miVars, bufVars>>

\* The pipeline being drained has returned None: the chain leaves it for
\* good, its intervals having been passed on with the chromosome's name.
ChainLeave ==
    /\ pc = "idle"
    /\ current_chrom # None
    /\ ended
    /\ tagged' = tagged \o [k \in 1..Len(yielded) |-> ValueWithChrom(current_chrom[1], yielded[k])]
    /\ current_chrom' = None
    /\ inputs' = <<>> /\ sections' = <<>> /\ queue' = <<>> /\ buffer' = None
    /\ out' = <<>> /\ earliest_start' = None /\ sec' = 0 /\ pc' = "off"
    /\ ret' = None /\ yielded' = <<>> /\ ended' = FALSE /\ panicked' = FALSE
    /\ UNCHANGED <<bigwigs, gmv, all_values, miVars, bufVars>>

\* --------------------------------------------------------- specifications
InitMergeInto == mi_one \in Intervals /\ mi_two \in Intervals /\ mi_res = None /\ MergeUnused /\ BufUnused /\ ChromUnused
NextMergeInto == CallMergeInto
SpecMergeInto == InitMergeInto /\ [][NextMergeInto]_vars

InitMerge == MergeIntoUnused /\ BufUnused /\ ChromUnused /\ CallMerge(<<>>, NumSources, MaxTotal)
NextMerge == NextBuffered \/ NextStart \/ Pull \/ RoundDrainAll \/ RoundDrainSafe \/ RoundAgain
SpecMerge == InitMerge /\ [][NextMerge]_vars

InitTwoSources ==
    /\ MergeIntoUnused /\ BufUnused /\ ChromUnused
    /\ \E a \in 1..MaxHalves : \E b \in 1..MaxHalves : \E c \in 1..MaxHalves :
           merge_sections_many(TwoSources(a, b, c))
SpecTwoSources == InitTwoSources /\ [][NextMerge]_vars

InitBuf == MergeIntoUnused /\ MergeUnused /\ ChromUnused /\ \E c \in {"new", "new_from_real"} : TempFileBuffer_new(c)
NextBuf == WriterNext \/ OwnerNext
SpecBuf == InitBuf /\ [][NextBuf]_vars
\* Both threads are scheduled: a thread that can take a step does so.
SpecBufFair == SpecBuf /\ WF_vars(WriterNext) /\ WF_vars(OwnerNext)

InitChrom ==
    /\ MergeIntoUnused /\ MergeUnused /\ BufUnused
    /\ bigwigs \in [1..NumBigwigs -> BigWigReads]
    /\ gmv = "none" /\ all_values = <<>> /\ current_chrom = None /\ tagged = <<>>
\* The chain polls a pipeline until it returns None, and never again.
NextChrom ==
    \/ GetMergedValues \/ ChainEnter \/ ChainLeave
    \/ NextBuffered \/ (~ended /\ NextStart) \/ Pull \/ RoundDrainAll \/ RoundDrainSafe \/ RoundAgain
SpecChrom == InitChrom /\ [][NextChrom]_vars

\* ------------------------------------------------------------ properties
\* p lies in the half-open interval iv.
Covers(iv, p) == iv.start <= p /\ p < iv.end

\* The sum of the values of the intervals of the sequence s that cover p.
RECURSIVE SumAt(_, _)
SumAt(s, p) ==
    IF s = <<>> THEN 0
    ELSE (IF Covers(Head(s), p) THEN Head(s).value ELSE 0) + SumAt(Tail(s), p)

\* The sum over all sources of the source's value at p (0 where absent).
RECURSIVE InputSum(_, _)
InputSum(ss, p) == IF ss = <<>> THEN 0 ELSE SumAt(Head(ss), p) + InputSum(Tail(ss), p)

InputCovered(ss, p) == \E i \in 1..Len(ss) : \E j \in 1..Len(ss[i]) : Covers(ss[i][j], p)

\* The output o has value v at p: every output interval over p carries v,
\* and where none does v is 0.
OutputValueIs(o, p, v) ==
    /\ \A i \in 1..Len(o) : Covers(o[i], p) => o[i].value = v
    /\ (\A i \in 1..Len(o) : ~Covers(o[i], p)) => v = 0

\* C1: the intervals returned by successive next() calls are sorted by start
\* and pairwise non-overlapping: each ends at or before the start of the next.
C1_OutputSortedDisjoint ==
    \A i \in 1..(Len(yielded) - 1) : yielded[i].end <= yielded[i + 1].start

\* C2: once the merger is drained, at every position covered by an input the
\* output's value is the sum of the sources' values there.
C2_PointwiseSum ==
    ended => \A p \in 0..MaxSrcPos :
                 InputCovered(inputs, p) => OutputValueIs(yielded, p, InputSum(inputs, p))

\* The permutations of 1..n.
Perms(n) == {f \in [1..n -> 1..n] : \A i \in 1..n : \A j \in 1..n : f[i] = f[j] => i = j}

\* The number of times x occurs in the sequence s.
Count(s, x) == Cardinality({i \in 1..Len(s) : s[i] = x})

\* The sequences s and t hold the same elements the same number of times.
SameMultiset(s, t) ==
    /\ Len(s) = Len(t)
    /\ \A i \in 1..Len(s) : Count(s, s[i]) = Count(t, s[i])

\* C11: once the merger is drained, the intervals it returned are, as a
\* multiset, those the merger returns for every permutation of its sources.
C11_PermutationInvariant ==
    ended => \A f \in Perms(Len(inputs)) :
                 LET c == collect([i \in 1..Len(inputs) |-> inputs[f[i]]], <<>>)
                 IN  ~c.panic /\ SameMultiset(yielded, c.out)

\* The sources are those of scenario S3: A = [0,5)=1.0, [5,10)=2.0 and
\* B = [3,8)=0.5.
IsS3 == inputs = TwoSources(2, 4, 1)

\* Every interval of both sources has been pulled.
AllPulled == \A i \in 1..Len(sections) : sections[i] = <<>>

\* B's interval has been pulled and A's second interval has not: the first
\* round is over or at its end.
AfterFirstPulls == Len(sections) = 2 /\ Len(sections[1]) = 1 /\ sections[2] = <<>>

\* C16: on the sources of scenario S3 the merger returns a prefix of
\* [0,3)=1.0, [3,5)=1.5, [5,8)=2.5, [8,10)=2.0 and, once drained, all of it;
\* B's overhang [5,8)=0.5 waits in the queue after the pulls of the first
\* round and is merged when A's second interval is pulled in the next.
C16_ScenarioS3 ==
    IsS3 =>
        LET expected == <<ValueSection(0, 3, 2), ValueSection(3, 5, 3),
                          ValueSection(5, 8, 5), ValueSection(8, 10, 4)>>
        IN  /\ ~panicked
            /\ Len(yielded) <= 4 /\ yielded = SubSeq(expected, 1, Len(yielded))
            /\ ended => yielded = expected
            /\ AfterFirstPulls =>
                   (yielded = <<>> /\ queue = <<ValueSection(0, 3, 2), ValueSection(3, 5, 3), ValueSection(5, 8, 1)>>)
            /\ AllPulled => yielded \o (IF buffer = None THEN <<>> ELSE buffer[1]) \o out \o queue = expected

\* C16 witness: the merger is drained on the sources of scenario S3 and has
\* returned the four intervals.
C16_Witness == IsS3 /\ ended /\ ret = None /\ Len(yielded) = 4 /\ yielded[3] = ValueSection(5, 8, 5)

\* C18: after every insertion of a pulled interval (its overhang
\* re-insertions included) and after every drain, every queue entry ends at
\* or before the start of the next.
C18_QueueSortedDisjoint ==
    \A i \in 1..(Len(queue) - 1) : queue[i].end <= queue[i + 1].start

\* The intervals moved out of the queue so far: those returned, those
\* waiting in the buffer and those in out.
Emitted == yielded \o (IF buffer = None THEN <<>> ELSE buffer[1]) \o out

\* The number of intervals pulled from source i so far.
Pulled(i) == Len(inputs[i]) - Len(sections[i])

\* No interval still to be pulled starts before the end of an interval
\* already moved out of the queue.
EmittedBeforeLater ==
    \A e \in 1..Len(Emitted) : \A i \in 1..Len(sections) : \A j \in 1..Len(sections[i]) :
        Emitted[e].end <= sections[i][j].start

\* At the end of a round in which a source produced, earliest_start is the
\* least start pulled in the round, the round's number being the largest
\* number of intervals pulled from one source.
EarliestIsMin ==
    (pc = "vals" /\ sec > Len(sections) /\ earliest_start # None) =>
        LET n == CHOOSE m \in 1..MaxTotal :
                     /\ \E i \in 1..Len(inputs) : Pulled(i) = m
                     /\ \A i \in 1..Len(inputs) : Pulled(i) <= m
            starts == {inputs[i][n].start : i \in {k \in 1..Len(inputs) : Pulled(k) = n}}
        IN  earliest_start[1] = MinOf(starts)

\* The step that ends a round in which a source produced and returns: what
\* leaves the queue is a prefix of it whose intervals end at or before
\* earliest_start.
DrainsSafePrefix ==
    (pc = "vals" /\ pc' = "idle" /\ earliest_start # None) =>
        LET moved == ret' \o buffer'[1]
        IN  /\ queue = moved \o queue'
            /\ \A k \in 1..Len(moved) : moved[k].end <= earliest_start[1]

\* C20: in a round in which a source produced, only intervals of a queue
\* prefix that end at or before earliest_start, the least start pulled in
\* the round, are moved out of the queue; every interval pulled later starts
\* at or after the end of every interval moved out before.
C20_EmittedIsFinal == []EmittedBeforeLater /\ []EarliestIsMin /\ [][DrainsSafePrefix]_vars

\* C20 witness: a round in which a source produced has moved an interval
\* out of the queue while another stays queued and a source has more to
\* give.
C20_Witness ==
    /\ pc = "idle" /\ ~ended /\ yielded # <<>> /\ queue # <<>>
    /\ \E i \in 1..Len(sections) : sections[i] # <<>>

\* The 'vals loop is about to pull an interval from a source.
AboutToPull == pc = "vals" /\ sec <= Len(sections) /\ sections[sec] # <<>>

\* C21: the insertion of a pulled interval calls merge_into only on pairs
\* with queued.start < incoming.end and incoming.start < queued.end, no scan
\* runs off the end of the queue, and no call of next() panics.
C21_MergeOnlyOnOverlap ==
    /\ ~panicked /\ pc # "panic"
    /\ AboutToPull =>
           LET calls == merge_calls(queue, Head(sections[sec]), TRUE)
           IN  /\ \A k \in 1..Len(calls) :
                      calls[k][1].start < calls[k][2].end /\ calls[k][2].start < calls[k][1].end
               /\ ~falls_through(queue, Head(sections[sec]))

\* C21 witness: the interval about to be pulled is merged into a queue entry
\* and its overhang into the next entry.
C21_Witness ==
    /\ AboutToPull
    /\ Len(merge_calls(queue, Head(sections[sec]), TRUE)) >= 2

\* The pending buffer holds no interval.
BufferEmpty == IF buffer = None THEN TRUE ELSE buffer[1] = <<>>

\* The number of intervals the sources have yet to produce.
RECURSIVE Remaining(_)
Remaining(secs) == IF secs = <<>> THEN 0 ELSE Len(Head(secs)) + Remaining(Tail(secs))

\* The number of intervals a call can still find: in the sources, in the
\* queue and in out.
Left == Remaining(sections) + Len(queue) + Len(out)

\* A measure of the work left inside a call: the intervals to pull and
\* whether the round has pulled one, then the sources left in the round.
Rank ==
    (2 * Remaining(sections) + Len(earliest_start)) * (Len(sections) + 2) + (Len(sections) + 1 - sec)

\* Inside a call a step is always possible (Pull while a source of the round
\* is left, one of the three round ends after the last), and every step that
\* stays inside the call lowers the measure, which is never negative: the
\* call returns.
CallCanStep ==
    pc = "vals" =>
        /\ Rank >= 0
        /\ sec \in 1..(Len(sections) + 1)
        /\ sec > Len(sections) =>
               \/ earliest_start = None
               \/ out \o SubSeq(queue, 1, SafePrefix(queue, earliest_start[1])) # <<>>
               \/ out \o SubSeq(queue, 1, SafePrefix(queue, earliest_start[1])) = <<>>
CallProgresses == (pc = "vals" /\ pc' = "vals") => Rank' < Rank

\* next() has returned None only with every source exhausted and nothing in
\* the queue, in out or in the pending buffer.
EndOnlyWhenEmpty == ended => (AllPulled /\ queue = <<>> /\ out = <<>> /\ BufferEmpty)

\* A call that finds an interval in the pending buffer returns one; a call
\* that has an interval left in the sources, the queue or out keeps one left
\* until it returns, and returns one.
ReturnsWhatIsLeft ==
    /\ (pc = "idle" /\ pc' = "idle" /\ ~BufferEmpty) => ret' # None
    /\ (pc = "idle" /\ pc' = "vals") => Left' = Left
    /\ (pc = "vals" /\ Left > 0) => ((pc' = "vals" => Left' > 0) /\ (pc' = "idle" => ret' # None))

\* After next() has returned None every call returns None and no interval.
EndIsFinal == ended => (ended' /\ yielded' = yielded /\ (pc' = "idle" => ret' = None))

\* No interval is lost between the queue and the caller: a step that pulls
\* nothing leaves the intervals returned, pending and queued as they are.
NothingDropped == sections' = sections => Emitted' \o queue' = Emitted \o queue

\* C22: every call of next() returns; it returns None only when every source
\* is exhausted and the queue and the pending buffer are empty, and an
\* interval otherwise; after None every later call returns None; what is in
\* the queue when the sources run dry is returned.
C22_NextTerminates ==
    /\ [](CallCanStep /\ EndOnlyWhenEmpty)
    /\ [][CallProgresses /\ ReturnsWhatIsLeft /\ EndIsFinal /\ NothingDropped]_vars

\* C22 witness: next() has returned None, and did so again on a later call,
\* after returning three intervals or more from sources of which one gave
\* two.
C22_Witness ==
    /\ ended /\ pc = "idle" /\ ret = None /\ buffer = Some(<<>>)
    /\ Len(yielded) >= 3
    /\ \E i \in 1..Len(inputs) : Len(inputs[i]) >= 2

\* C23: in the insertion of a pulled interval every overhang starts strictly
\* after the incoming interval of the merge_into call that returned it, and
\* the overhang loop ends after at most as many calls as the queue had
\* entries.
C23_OverhangMovesRight ==
    AboutToPull =>
        LET os == overhangs(queue, Head(sections[sec]), Len(queue) + 1)
        IN  /\ \A k \in 1..Len(os) : os[k].overhang.start > os[k].incoming.start
            /\ Len(os) <= Len(queue)

\* C23 witness: the interval about to be pulled leaves an overhang that is
\* merged again and leaves a second overhang.
C23_Witness ==
    /\ AboutToPull
    /\ Len(overhangs(queue, Head(sections[sec]), Len(queue) + 1)) >= 2

\* ---- merge_into
\* The two intervals share at least one position.
TrulyOverlap(a, b) == a.start < b.end /\ b.start < a.end

\* b lies within a.
Within(b, a) == a.start <= b.start /\ b.end <= a.end

\* The present components of a returned tuple, in tuple order.
Parts(t) == <<t.one>> \o t.two \o t.three \o t.overhang

Sign(x) == IF x < 0 THEN "<" ELSE IF x = 0 THEN "=" ELSE ">"

\* The case table of the specification (4.1), row by row: the row is
\* selected by the order of the starts, the order of the ends and which of
\* the two values are zero.
CaseTable(a, b) ==
    LET ss == Sign(a.start - b.start)
        ee == Sign(a.end - b.end)
        az == (a.value = 0)
        bz == (b.value = 0)
        sum == a.value + b.value
        I(s, e, v) == [start |-> s, end |-> e, value |-> v]
        Row(p, s, t, o) == [panic |-> FALSE, one |-> p, two |-> s, three |-> t, overhang |-> o]
    IN  CASE ss = "=" /\ ee = "=" -> Row(I(a.start, a.end, sum), <<>>, <<>>, <<>>)
          [] ss = "=" /\ ee = "<" -> Row(I(a.start, a.end, sum), <<>>, <<>>, <<I(a.end, b.end, b.value)>>)
          [] ss = "=" /\ ee = ">" /\ bz -> Row(a, <<>>, <<>>, <<>>)
          [] ss = "=" /\ ee = ">" /\ ~bz -> Row(I(b.start, b.end, sum), <<I(b.end, a.end, a.value)>>, <<>>, <<>>)
          [] ss = "<" /\ ee = "=" /\ bz -> Row(a, <<>>, <<>>, <<>>)
          [] ss = "<" /\ ee = "=" /\ ~bz -> Row(I(a.start, b.start, a.value), <<I(b.start, b.end, sum)>>, <<>>, <<>>)
          [] ss = "<" /\ ee = "<" /\ az /\ bz -> Row(a, <<>>, <<>>, <<I(a.end, b.end, 0)>>)
          [] ss = "<" /\ ee = "<" /\ az /\ ~bz ->
                 Row(I(a.start, b.start, 0), <<I(b.start, a.end, b.value)>>, <<>>, <<I(a.end, b.end, b.value)>>)
          [] ss = "<" /\ ee = "<" /\ ~az /\ bz -> Row(a, <<>>, <<>>, <<I(a.end, b.end, 0)>>)
          [] ss = "<" /\ ee = "<" /\ ~az /\ ~bz ->
                 Row(I(a.start, b.start, a.value), <<I(b.start, a.end, sum)>>, <<>>, <<I(a.end, b.end, b.value)>>)
          [] ss = "<" /\ ee = ">" /\ bz -> Row(a, <<>>, <<>>, <<>>)
          [] ss = "<" /\ ee = ">" /\ ~bz ->
                 Row(I(a.start, b.start, a.value), <<I(b.start, b.end, sum)>>, <<I(b.end, a.end, a.value)>>, <<>>)
          [] ss = ">" /\ ee = "=" /\ az -> Row(b, <<>>, <<>>, <<>>)
          [] ss = ">" /\ ee = "=" /\ ~az -> Row(I(b.start, a.start, b.value), <<I(a.start, a.end, sum)>>, <<>>, <<>>)
          [] ss = ">" /\ ee = "<" /\ az -> Row(b, <<>>, <<>>, <<>>)
          [] ss = ">" /\ ee = "<" /\ ~az ->
                 Row(I(b.start, a.start, b.value), <<I(a.start, a.end, sum)>>, <<>>, <<I(a.end, b.end, b.value)>>)
          [] ss = ">" /\ ee = ">" /\ az /\ bz -> Row(I(b.start, a.end, 0), <<>>, <<>>, <<>>)
          [] ss = ">" /\ ee = ">" /\ az /\ ~bz -> Row(b, <<I(b.end, a.end, a.value)>>, <<>>, <<>>)
          [] ss = ">" /\ ee = ">" /\ ~az /\ bz -> Row(I(b.start, a.start, 0), <<I(a.start, a.end, a.value)>>, <<>>, <<>>)
          [] ss = ">" /\ ee = ">" /\ ~az /\ ~bz ->
                 Row(I(b.start, a.start, b.value), <<I(a.start, b.end, sum)>>, <<I(b.end, a.end, a.value)>>, <<>>)

\* The tuple that is just the interval x.
Just(x) == [panic |-> FALSE, one |-> x, two |-> <<>>, three |-> <<>>, overhang |-> <<>>]

\* merge_into has been called on a truly overlapping pair.
CalledOnOverlap == mi_res # None /\ TrulyOverlap(mi_one, mi_two)

\* C7 as stated: on truly overlapping a, b merge_into returns the case
\* table's row; a zero b within a gives just a; a zero a within b gives
\* just b.
C7_TableAndAbsorbBothWays ==
    CalledOnOverlap =>
        /\ mi_res[1] = CaseTable(mi_one, mi_two)
        /\ (mi_two.value = 0 /\ Within(mi_two, mi_one)) => mi_res[1] = Just(mi_one)
        /\ (mi_one.value = 0 /\ Within(mi_one, mi_two)) => mi_res[1] = Just(mi_two)

\* C7 as amended: on truly overlapping a, b merge_into returns the case
\* table's row; a zero b within a gives just a; a zero a within b gives
\* just b unless a and b start together and a ends first, where the result
\* is [a.start, a.end) with b's value and the overhang [a.end, b.end) with
\* b's value.
C7_TableAndAbsorb ==
    CalledOnOverlap =>
        /\ mi_res[1] = CaseTable(mi_one, mi_two)
        /\ (mi_two.value = 0 /\ Within(mi_two, mi_one)) => mi_res[1] = Just(mi_one)
        /\ (mi_one.value = 0 /\ Within(mi_one, mi_two)) =>
               IF mi_one.start = mi_two.start /\ mi_one.end < mi_two.end
               THEN mi_res[1] = [panic |-> FALSE,
                                 one |-> [start |-> mi_one.start, end |-> mi_one.end, value |-> mi_two.value],
                                 two |-> <<>>, three |-> <<>>,
                                 overhang |-> <<[start |-> mi_one.end, end |-> mi_two.end,
                                                 value |-> mi_two.value]>>]
               ELSE mi_res[1] = Just(mi_two)

\* C7 witness: merge_into was called with a zero a that starts with b and
\* ends before it.
C7_Witness ==
    /\ CalledOnOverlap
    /\ mi_one.value = 0 /\ mi_two.value # 0
    /\ mi_one.start = mi_two.start /\ mi_one.end < mi_two.end

\* C8: on truly overlapping a, b the components of the tuple (the overhang
\* taken as an interval) are pairwise non-overlapping and at every position
\* of the union of a and b carry a's value there plus b's value there.
C8_SplitterClosure ==
    CalledOnOverlap =>
        LET parts == Parts(mi_res[1])
        IN  /\ ~mi_res[1].panic
            /\ \A i \in 1..Len(parts) : \A j \in 1..Len(parts) :
                   i # j => ~TrulyOverlap(parts[i], parts[j])
            /\ \A p \in 0..MaxPos :
                   (Covers(mi_one, p) \/ Covers(mi_two, p)) =>
                       /\ \E i \in 1..Len(parts) : Covers(parts[i], p)
                       /\ OutputValueIs(parts, p, SumAt(<<mi_one, mi_two>>, p))

\* C8 witness: a call on a partially overlapping pair of nonzero intervals
\* returned a second interval and an overhang.
C8_Witness ==
    /\ CalledOnOverlap
    /\ mi_res[1].two # None /\ mi_res[1].overhang # None
    /\ mi_one.value # 0 /\ mi_two.value # 0
    /\ mi_one.start < mi_two.start

\* C9: for one.end > two.start every present component of the tuple has
\* start < end and the components are in increasing genomic order (each
\* ends at or before the start of the next), hence non-overlapping.
C9_TupleWellFormed ==
    (mi_res # None /\ mi_one.end > mi_two.start) =>
        LET parts == Parts(mi_res[1])
        IN  /\ ~mi_res[1].panic
            /\ \A i \in 1..Len(parts) : parts[i].start < parts[i].end
            /\ \A i \in 1..(Len(parts) - 1) : parts[i].end <= parts[i + 1].start

\* C10: merge_into panics exactly when one.end <= two.start.
C10_PanicIffNoOverlap ==
    mi_res # None => (mi_res[1].panic <=> mi_one.end <= mi_two.start)

\* C10 witness: a call with one.end <= two.start has panicked.
C10_Witness == mi_res # None /\ mi_one.end <= mi_two.start /\ mi_res[1].panic

\* ---- TempFileBuffer
\* The owner is inside an await call (await_file, await_raw or
\* expect_closed_write) that has not ended.
InAwait == owner_pc \in {"check", "wait", "state", "match"}

\* The owner is past the wait loop of an await call.
PastWait == owner_pc \in {"state", "match"} \/ (owner_pc \in {"done", "panicked"} /\ owner_op # "none")

\* C3: for a buffer made by new() and switched once, the file await_file or
\* await_raw returns holds exactly the bytes written, in write order (so the
\* bytes written before switch come first, none lost, none twice).
C3_BufferMigration ==
    (ctor = "new" /\ nswitch = 1 /\ owner_pc = "done" /\ owner_op \in {"await_file", "await_raw"}) =>
        returned = Some(written)

\* C3 witness: an await returned the file after a switch that fell between
\* two writes: it copied some of the bytes, and more were written after it.
C3_Witness ==
    /\ ctor = "new" /\ nswitch = 1 /\ owner_pc = "done" /\ owner_op \in {"await_file", "await_raw"}
    /\ copied # None
    /\ copied[1] > 0 /\ copied[1] < Len(written)
    /\ returned = Some(written)

\* What the owner does past the wait, it does with closed set and the
\* writer dropped.
ClosedBeforeProceeding ==
    /\ PastWait => closed
    /\ (state.file = None \/ returned # None \/ sink # <<>>) => closed
    /\ closed => writer_pc = "dropped"

\* closed changes only from false to true, and only in the writer's drop.
ClosedSetOnlyByDrop ==
    closed' # closed => (~closed /\ closed' /\ writer_pc = "drop" /\ writer_pc' = "dropped")

\* C4: the await calls never get past their wait, nor take or read the file,
\* before the writer has been dropped: they proceed only with closed true;
\* closed becomes true only in the writer's drop and never false again.
C4_AwaitOnlyAfterDrop == []ClosedBeforeProceeding /\ [][ClosedSetOnlyByDrop]_vars

\* C4 witness: an await call got past the wait and returned the file after
\* the writer wrote and was dropped.
C4_Witness == PastWait /\ closed /\ owner_pc = "done" /\ returned # None /\ Len(written) > 0

\* C5: under weak fairness of both threads, once the writer is dropped an
\* owner inside an await call gets out of the wait and its call ends; an
\* await_raw call ends by returning the file.
C5_NoLostWakeup ==
    /\ (closed /\ InAwait) ~> (owner_pc \in {"done", "panicked"})
    /\ (closed /\ InAwait /\ owner_op = "await_raw") ~> (owner_pc = "done" /\ returned # None)

\* C5 witness: the owner was parked on the condition variable when the
\* writer's drop set closed and notified it.
C5_Witness == owner_pc = "wait" /\ closed /\ ~cv_waiting

\* The step that ends a switch call: on a Real state it panics and leaves
\* the state as it is; on a Temp state it returns and leaves Real of the new
\* file, which holds the bytes of the spill file.
SwitchEnds ==
    (owner_pc = "switch" /\ owner_pc' # "switch") =>
        IF state.kind = "Real"
        THEN owner_pc' = "panicked" /\ state' = state
        ELSE /\ state.file # None
             /\ owner_pc' = "run"
             /\ state' = Real(Some(state.file[1]))

\* C13: switch on a buffer already in Real state (switched before, or made
\* by new_from_real) panics and leaves the destination file in place; switch
\* in Temp state succeeds and leaves the state Real of the new file.
C13_SwitchOnlyOnce == [][SwitchEnds]_vars

\* C13 witness: the second switch on a buffer made by new() has panicked,
\* the destination file still holding everything written.
C13_Witness ==
    /\ ctor = "new" /\ nswitch = 2 /\ owner_pc = "panicked" /\ owner_op = "none"
    /\ state.kind = "Real" /\ written # <<>> /\ state.file = Some(written)

\* The step that ends an await_file call: on a Real state it returns the
\* state's file; on a Temp state it panics and returns nothing.
AwaitFileEnds ==
    (owner_op = "await_file" /\ owner_pc = "match" /\ owner_pc' # "match") =>
        IF state.kind = "Real"
        THEN state.file # None /\ owner_pc' = "done" /\ returned' = state.file
        ELSE owner_pc' = "panicked" /\ returned' = None

\* The state becomes Real only in switch, and a Real state stays Real.
RealOnlyBySwitch ==
    /\ (state.kind = "Temp" /\ state'.kind = "Real") => (owner_pc = "switch" /\ owner_pc' = "run")
    /\ state.kind = "Real" => state'.kind = "Real"

\* await_file has returned: the writer had been dropped, the buffer was made
\* by new_from_real or switched, and the file returned is the destination,
\* which holds everything written.
AwaitFileReturned ==
    (owner_op = "await_file" /\ owner_pc = "done") =>
        /\ closed /\ writer_pc = "dropped"
        /\ ctor = "new_from_real" \/ nswitch = 1
        /\ returned = Some(written)

\* C14: await_file returns a file only from a Real state found after the
\* writer has terminated, the file being the one given to switch or to
\* new_from_real; on a Temp state it panics and does not return the spill
\* file.
C14_AwaitFileNeedsReal == []AwaitFileReturned /\ [][AwaitFileEnds /\ RealOnlyBySwitch]_vars

\* C14 witness: await_file has panicked on a buffer never switched, after
\* the writer wrote to the spill file and was dropped.
C14_Witness ==
    /\ owner_op = "await_file" /\ owner_pc = "panicked"
    /\ ctor = "new" /\ nswitch = 0 /\ closed
    /\ state.kind = "Temp" /\ written # <<>> /\ state.file = Some(written) /\ returned = None

\* The step that ends an expect_closed_write call: on a Temp state it
\* returns with the bytes of the spill file copied to out; on a Real state
\* it panics with nothing copied.
ExpectClosedWriteEnds ==
    (owner_op = "expect_closed_write" /\ owner_pc = "match" /\ owner_pc' # "match") =>
        IF state.kind = "Temp"
        THEN state.file # None /\ owner_pc' = "done" /\ sink' = state.file[1]
        ELSE owner_pc' = "panicked" /\ sink' = <<>>

\* out receives bytes only from an expect_closed_write call that returns;
\* the call returns only after the writer has been dropped, on a buffer made
\* by new() and never switched, and out then holds the bytes written, in
\* write order.
ExpectClosedWriteReturned ==
    /\ sink # <<>> => (owner_op = "expect_closed_write" /\ owner_pc = "done")
    /\ (owner_op = "expect_closed_write" /\ owner_pc = "done") =>
           /\ closed /\ writer_pc = "dropped"
           /\ ctor = "new" /\ nswitch = 0
           /\ sink = written

\* C15: on a buffer made by new() and never switched, expect_closed_write
\* returns only after the writer is dropped, out having received exactly the
\* bytes written, in write order; on a Real state it panics and out receives
\* nothing.
C15_ExpectClosedWrite == []ExpectClosedWriteReturned /\ [][ExpectClosedWriteEnds]_vars

\* C15 witness: expect_closed_write has returned after two writes or more,
\* out holding what they wrote.
C15_Witness ==
    /\ owner_op = "expect_closed_write" /\ owner_pc = "done"
    /\ ctor = "new" /\ nswitch = 0 /\ nwrites >= 2 /\ Len(written) >= 2 /\ sink = written

\* Both threads are through: the writer is dropped and the owner's await
\* call has ended, or the owner has panicked.
BothDone == writer_pc = "dropped" /\ owner_pc \in {"done", "panicked"}

\* An owner parked in the wait holds neither mutex; the owner holds the state
\* mutex inside an await call, or is about to take it, only with closed set.
WaitsWithoutLocks ==
    /\ owner_pc = "wait" => (state_lock # "owner" /\ closed_lock # "owner")
    /\ InAwait /\ state_lock = "owner" => closed
    /\ owner_pc = "state" => closed

\* The holder of a mutex is never stuck: it can take a step, or it waits for
\* the other mutex whose holder can take a step.
HoldersProceed ==
    /\ state_lock = "writer" => ENABLED WriterNext
    /\ closed_lock = "writer" => ENABLED WriterNext
    /\ state_lock = "owner" => ENABLED OwnerNext
    /\ closed_lock = "owner" => (ENABLED OwnerNext \/ (state_lock = "writer" /\ ENABLED WriterNext))

\* C24: no interleaving of the writer (write, flush, drop) and the owner
\* (switch, then an await call) stops before both are through; an owner
\* parked in the wait holds no mutex, the holder of a mutex can always go
\* on, and the owner takes the state mutex in an await call only with
\* closed set.
C24_NoDeadlock ==
    /\ ~BothDone => ENABLED NextBuf
    /\ WaitsWithoutLocks
    /\ HoldersProceed

\* C24 witness: the owner is parked in the wait while the writer holds the
\* state mutex for a write.
C24_Witness == owner_pc = "wait" /\ cv_waiting /\ writer_pc = "write" /\ state_lock = "writer"

\* A write or flush under the state mutex finds the file in place, and no
\* writer has unwound from the panic for a missing file.
WriterFindsFile ==
    /\ writer_pc \in {"write", "flush"} => state.file # None
    /\ writer_pc # "unwind"

\* The file is missing only once the writer is dropped.
TakenOnlyAfterDrop == state.file = None => (closed /\ writer_pc = "dropped")

\* The file is taken out of the state only by the match of await_file or
\* await_raw.
TakenOnlyByAwait ==
    (state.file # None /\ state'.file = None) =>
        (owner_pc = "match" /\ owner_op \in {"await_file", "await_raw"} /\ owner_pc' = "done")

\* C25: a write or flush never finds Temp(None) or Real(None): the file is
\* taken only by await_file and await_raw, after the writer is dropped, so
\* the missing-file panics of write and flush are not reached.
C25_WriterNeverSeesTaken == [](WriterFindsFile /\ TakenOnlyAfterDrop) /\ [][TakenOnlyByAwait]_vars

\* C25 witness: await_raw has taken the spill file of a writer that wrote,
\* flushed or not, and was dropped.
C25_Witness ==
    /\ state = Temp(None) /\ owner_op = "await_raw" /\ owner_pc = "done"
    /\ writer_pc = "dropped" /\ written # <<>> /\ returned = Some(written)

\* ---- get_merged_values
\* Some name is declared with different lengths in two of the files.
LengthConflict ==
    \E i \in 1..Len(bigwigs) : \E j \in 1..Len(bigwigs) : \E c \in ChromNames :
        /\ bigwigs[i].chroms[c] # None /\ bigwigs[j].chroms[c] # None
        /\ bigwigs[i].chroms[c][1] # bigwigs[j].chroms[c][1]

\* C6: get_merged_values returns an error exactly when some name is declared
\* with different lengths in two of the files, and after an error no
\* pipeline exists and no interval is ever yielded.
C6_ConflictIsErrorBeforeOutput ==
    /\ gmv # "none" => (gmv = "Err" <=> LengthConflict)
    /\ gmv = "Err" => (all_values = <<>> /\ pc = "off" /\ yielded = <<>> /\ tagged = <<>>)

\* C6 witness: the call returned an error for files with a conflict.
C6_Witness == gmv = "Err" /\ LengthConflict

\* The names of the pipelines not yet entered, of the pipeline being drained
\* and of the pipelines whose intervals have been passed on.
PendingChroms == {all_values[k].chrom : k \in 1..Len(all_values)}
CurrentChroms == {current_chrom[k] : k \in 1..Len(current_chrom)}
DoneChroms == {tagged[k].chrom : k \in 1..Len(tagged)}

\* Every name is pending, current or done, and only one of them; what is
\* done precedes what is current, which precedes what is pending, in string
\* order; the pending pipelines and the intervals passed on are in ascending
\* string order of name.
ChromsInOrder ==
    gmv = "Ok" =>
        /\ PendingChroms \cup CurrentChroms \cup DoneChroms = chrom_names(bigwigs)
        /\ PendingChroms \cap CurrentChroms = {} /\ PendingChroms \cap DoneChroms = {}
        /\ CurrentChroms \cap DoneChroms = {}
        /\ \A d \in DoneChroms : \A c \in CurrentChroms \cup PendingChroms : StrLess(d, c)
        /\ \A c \in CurrentChroms : \A q \in PendingChroms : StrLess(c, q)
        /\ \A k \in 1..(Len(all_values) - 1) : StrLess(all_values[k].chrom, all_values[k + 1].chrom)
        /\ \A k \in 1..(Len(tagged) - 1) :
               tagged[k].chrom = tagged[k + 1].chrom \/ StrLess(tagged[k].chrom, tagged[k + 1].chrom)

\* The intervals passed on are those the pipeline being drained has
\* returned, in order, under that pipeline's name.
TaggedWithCurrent ==
    tagged' # tagged =>
        /\ current_chrom # None
        /\ tagged' = tagged \o [k \in 1..Len(yielded) |-> ValueWithChrom(current_chrom[1], yielded[k])]

\* C12: the chain visits the names of the union of the files' chromosomes in
\* ascending string order, each once; every interval carries the name of the
\* pipeline that returned it, and all intervals of a name come before any
\* interval of a later name.
C12_ChromsAscendingOnce == []ChromsInOrder /\ [][TaggedWithCurrent]_vars

\* C12 witness: the chain is exhausted after passing on intervals of both
\* names, "chr10" before "chr2".
C12_Witness ==
    /\ gmv = "Ok" /\ all_values = <<>> /\ current_chrom = None
    /\ DoneChroms = ChromNames
    /\ tagged[1].chrom = <<1, 0>> /\ tagged[Len(tagged)].chrom = <<2>>

\* The pipelines constructed and not yet exhausted: those chained and not
\* yet entered, and the one being drained.
LivePipelines == Len(all_values) + Len(current_chrom)

\* C17: at most one chromosome's pipeline is constructed and not yet
\* exhausted, a pipeline being constructed only when the chain reaches it.
C17_OnePipelineLive == LivePipelines <= 1

\* The number of files that contain the chromosome c.
FilesWith(c) == Cardinality({i \in 1..Len(bigwigs) : bigwigs[i].chroms[c] # None})

\* C19: every pipeline has one source per file that contains its chromosome,
\* and every source reads its blocks through the file the blocks index.
C19_SourcesOwnReader ==
    \A k \in 1..Len(all_values) :
        /\ Len(all_values[k].iters) = FilesWith(all_values[k].chrom)
        /\ \A j \in 1..Len(all_values[k].iters) :
               all_values[k].iters[j].blocks = all_values[k].iters[j].reader

====
